---- MODULE Spec2Model ----
(***************************************************************************)
(* A model of src/function.py: four browser-interaction helpers            *)
(* (input_text, click_element, click_checkbox, select_dropdown_option)     *)
(* running against a page that changes asynchronously.                     *)
(*                                                                         *)
(* The program is single-threaded: one call is in progress at a time and   *)
(* pc is its position.  click_checkbox calls click_element; `caller' holds *)
(* the call site while click_element runs on its behalf.  The page is the  *)
(* browser's state for the one element the locator addresses.  Strings     *)
(* typed into a field are sequences of characters.                         *)
(***************************************************************************)
EXTENDS Naturals, Sequences, FiniteSets, TLC

VARIABLES page, call, pc, polls, caller, ret, result, trace, hist, prev

vars == <<page, call, pc, polls, caller, ret, result, trace, hist, prev>>

(***************************************************************************)
(* Bounds                                                                  *)
(***************************************************************************)
\* Polls a bounded wait makes before its deadline passes (timeout / poll period).
MaxPolls == 2
\* Longest field content followed: a call that appends is taken only below it.
MaxValueLen == 2

(***************************************************************************)
(* Inputs                                                                  *)
(***************************************************************************)
Texts == {<<"a">>, <<"b">>}
InitialValues == {<< >>, <<"x">>}
Kinds == {"field", "button", "checkbox", "select"}
\* The <option>s of the select control, in document order (index 0 first).
Options == <<[value |-> "v0", text |-> "T0"], [value |-> "v1", text |-> "T1"]>>
NumOptions == Len(Options)
\* option_text arguments: a value, a label, an index in range, an index out of
\* range, and a string that is none of them.
OptionTexts == {"v1", "T1", "1", "9", "zz"}
Modes == {"visible_text", "value", "index", "label"}
\* Exceptions of the browser layer, by the class the handlers tell apart.
Excs == {"Timeout", "Intercepted", "NoSuchElement", "Stale", "Other"}

NoArgs == [op |-> "none", text |-> << >>, clear_first |-> TRUE,
           desired_state |-> TRUE, by |-> "visible_text", option_text |-> "zz"]
NoPrev == [valid |-> FALSE, desired |-> TRUE, result |-> "none",
           clicks |-> 0, endChecked |-> FALSE, rough |-> FALSE]
NoHist == [absent |-> FALSE, gone |-> FALSE, ext |-> FALSE, before |-> << >>, selBefore |-> 0,
           enabledHist |-> "always", wasReadonly |-> FALSE]

\* The pages a call can meet.  Attributes that the element's kind does not
\* have are held at their defaults.
Pages ==
  { p \in [kind : Kinds, overlay : BOOLEAN, present : BOOLEAN, displayed : BOOLEAN,
           enabled : BOOLEAN, readonly : BOOLEAN, obscured : BOOLEAN,
           toggles : BOOLEAN, checked : BOOLEAN, value : InitialValues,
           selected : 0 .. (NumOptions - 1)] :
      /\ (p.kind # "field" => ~p.readonly /\ p.value = << >> /\ p.enabled)
      /\ (p.kind \notin {"button", "checkbox"} => ~p.obscured)
      /\ (p.kind # "checkbox" => ~p.checked /\ p.toggles)
      /\ (p.kind # "select" => p.selected = 0)
      /\ (p.kind = "select" => p.displayed) }

(***************************************************************************)
(* Helpers over the trace of page actions of the current call              *)
(***************************************************************************)
Occurs(ev, tr) == \E i \in 1 .. Len(tr) : tr[i] = ev
Count(ev, tr) == Cardinality({i \in 1 .. Len(tr) : tr[i] = ev})
\* Position of the last occurrence of ev in tr, 0 when there is none.
LastPos(ev, tr) ==
  IF Occurs(ev, tr) THEN CHOOSE i \in 1 .. Len(tr) :
                            tr[i] = ev /\ \A j \in (i + 1) .. Len(tr) : tr[j] # ev
  ELSE 0
FirstPos(ev, tr) ==
  IF Occurs(ev, tr) THEN CHOOSE i \in 1 .. Len(tr) :
                            tr[i] = ev /\ \A j \in 1 .. (i - 1) : tr[j] # ev
  ELSE 0
\* Clicks the element received: standard clicks that went through and script clicks.
Registered(tr) == Count("click", tr) + Count("js_click", tr)
\* Click dispatches: standard clicks tried (received or intercepted) and script clicks.
Attempts(tr) == Count("click_try", tr) + Count("js_click", tr)

(***************************************************************************)
(* Exception handling: which except clause receives an exception raised    *)
(* at a position.  "uncaught" means no clause of the function covers it.   *)
(***************************************************************************)
ItTry == {"it_overlay_wait", "it_target_wait", "it_scroll", "it_check",
          "it_js_readonly", "it_js_disabled", "it_js_value", "it_clear",
          "it_send_keys", "it_evt_input", "it_evt_change"}
ItFallback == {"it_fb_find", "it_fb_value", "it_fb_input"}
CeTry == {"ce_overlay_wait", "ce_target_wait", "ce_scroll", "ce_click"}
CeFallback == {"ce_fb_find", "ce_fb_click"}
CbTry == {"cb_presence_wait", "cb_scroll", "cb_check", "cb_click_call",
          "cb_after_click", "cb_verify"}
SdTry == {"sd_presence_wait", "sd_scroll", "sd_select_ctor", "sd_dispatch",
          "sd_by_text", "sd_by_value", "sd_by_index", "sd_readback"}
SdEnum == {"sd_enum"}

\* A variant in which no exception reaches the last-resort fallback.
ItCatchNoFallback(e) == "it_except_timeout"
\* input_text, lines 45-83: except TimeoutException / except Exception.
ItCatch(e) == IF e = "Timeout" THEN "it_except_timeout" ELSE "it_except_other"
\* input_text, lines 85-94: the try around the last-resort fallback.
ItFallbackCatch(e) == "it_fb_except"
\* A variant that sends every exception to the interception fallback.
CeCatchAll(e) == "ce_except_intercepted"
\* click_element, lines 117-153: intercepted / timeout / any other.
CeCatch(e) ==
  IF e = "Intercepted" THEN "ce_except_intercepted"
  ELSE IF e = "Timeout" THEN "ce_except_timeout"
  ELSE "ce_except_other"
\* click_element, lines 139-147: the try around the script click.
CeFallbackCatch(e) == "ce_fb_except"
\* click_checkbox, lines 170-205.
CbCatch(e) == IF e = "Timeout" THEN "cb_except_timeout" ELSE "cb_except_other"
\* select_dropdown_option, lines 223-265.
SdCatch(e) ==
  IF e = "NoSuchElement" THEN "sd_except_nosuch"
  ELSE IF e = "Timeout" THEN "sd_except_timeout"
  ELSE "sd_except_other"
\* A variant of the enumeration's handler that lets the exception through.
SdEnumCatchNone(e) == "uncaught"
\* select_dropdown_option, lines 254-258: try ... except: pass.
SdEnumCatch(e) == "sd_enum_pass"

Catch(p, e) ==
  CASE p \in ItTry -> ItCatch(e)
    [] p \in ItFallback -> ItFallbackCatch(e)
    [] p \in CeTry -> CeCatch(e)
    [] p \in CeFallback -> CeFallbackCatch(e)
    [] p \in CbTry -> CbCatch(e)
    [] p \in SdTry -> SdCatch(e)
    [] p \in SdEnum -> SdEnumCatch(e)
    [] OTHER -> "uncaught"

\* How a failure of the browser layer at position p shows in the trace: by
\* its class, as far as the except clauses covering p tell classes apart.
FaultEvent(p, e) ==
  IF p \in ItTry \cup CeTry \cup CbTry \cup SdTry /\ e = "Timeout" THEN "fault_timeout"
  ELSE IF p \in CeTry /\ e = "Intercepted" THEN "fault_intercepted"
  ELSE IF p \in SdTry /\ e = "NoSuchElement" THEN "fault_nosuch"
  ELSE "fault"
FaultEvents == {"fault", "fault_timeout", "fault_intercepted", "fault_nosuch"}
\* The browser layer raised of its own accord during the call.
Faulted(tr) == \E i \in 1 .. Len(tr) : tr[i] \in FaultEvents

(***************************************************************************)
(* Control: every step ends in exactly one of Goto, Throw, Return.         *)
(***************************************************************************)
Goto(p) == pc' = p /\ UNCHANGED <<caller, ret, result>>

\* Raise e at the current position.  An exception no clause of click_element
\* covers unwinds to the call site in click_checkbox; one that nothing
\* covers leaves the call and reaches the caller of the helper.
Throw(e) ==
  LET h == Catch(pc, e) IN
  IF h # "uncaught" THEN pc' = h /\ UNCHANGED <<caller, ret, result>>
  ELSE IF caller # "none" /\ Catch(caller, e) # "uncaught"
       THEN pc' = Catch(caller, e) /\ caller' = "none" /\ UNCHANGED <<ret, result>>
       ELSE pc' = "idle" /\ caller' = "none" /\ result' = "raised" /\ ret' = ret

\* return v: to the call site when click_element runs for click_checkbox,
\* otherwise to the caller of the helper.
Return(v) ==
  IF caller # "none"
  THEN pc' = "cb_after_click" /\ ret' = v /\ caller' = "none" /\ result' = result
  ELSE pc' = "idle" /\ result' = v /\ UNCHANGED <<caller, ret>>

Log(ev) == trace' = Append(trace, ev)
Logs(evs) == trace' = trace \o evs

(***************************************************************************)
(* WebDriverWait.until: poll the condition; a failed poll either waits for *)
(* the next one or, once the deadline has passed, raises TimeoutException. *)
(***************************************************************************)
\* A variant whose deadline never advances.
NextPollStuck(n) == n
NextPoll(n) == n + 1
WaitExpired(n) == n >= MaxPolls

\* EC.invisibility_of_element_located: true when the overlay is absent or hidden.
OverlayGone == ~page.overlay
\* EC.element_to_be_clickable: located, displayed and enabled.
Clickable == page.present /\ page.displayed /\ page.enabled
\* EC.presence_of_element_located.
Present == page.present

\* A variant of the wait whose timeout is logged and then ignored.
PollAdvisory(cond, next, timeoutEv) ==
  IF cond THEN Goto(next) /\ polls' = 0 /\ trace' = trace
  ELSE IF WaitExpired(NextPoll(polls))
       THEN Goto(next) /\ polls' = 0 /\ Log(timeoutEv)
       ELSE Goto(pc) /\ polls' = NextPoll(polls) /\ trace' = trace

\* One poll of a wait for cond at the current position; on success go to next.
Poll(cond, next, timeoutEv) ==
  IF cond THEN Goto(next) /\ polls' = 0 /\ trace' = trace
  ELSE IF WaitExpired(NextPoll(polls))
       THEN Throw("Timeout") /\ polls' = 0 /\ Log(timeoutEv)
       ELSE Goto(pc) /\ polls' = NextPoll(polls) /\ trace' = trace

\* A command on the element handle obtained earlier: it raises
\* StaleElementReferenceException when the node is gone, and otherwise
\* logs evs, leaves the page as pg and continues at next.
Command(next, evs, pg) ==
  IF page.present
  THEN Goto(next) /\ Logs(evs) /\ page' = pg
  ELSE Throw("Stale") /\ trace' = trace /\ page' = page

\* driver.find_element(*locator): NoSuchElementException when nothing matches.
Find(next) ==
  IF page.present
  THEN Goto(next) /\ Log("find")
  ELSE Throw("NoSuchElement") /\ trace' = trace

(***************************************************************************)
(* input_text                                                              *)
(***************************************************************************)
\* The field accepts simulated user input.
Interactable == page.enabled /\ ~page.readonly

\* A variant of typing that replaces the content.
TypeKeysReplace(old, text) == text
\* element.send_keys(text): the keystrokes are added to what the field holds.
TypeKeys(old, text) == old \o text

ItOverlayWait ==
  /\ pc = "it_overlay_wait"
  /\ Poll(OverlayGone, "it_target_wait", "overlay_timeout")
  /\ UNCHANGED <<page, call, hist, prev>>

ItTargetWait ==
  /\ pc = "it_target_wait"
  /\ Poll(Clickable, "it_scroll", "target_timeout")
  /\ UNCHANGED <<page, call, hist, prev>>

ItScroll ==
  /\ pc = "it_scroll"
  /\ Command("it_check", <<"scroll">>, page)
  /\ UNCHANGED <<call, polls, hist, prev>>

\* line 61: if not element.is_enabled() or element.get_attribute("readonly")
ItCheck ==
  /\ pc = "it_check"
  /\ Command(IF ~page.enabled \/ page.readonly THEN "it_js_readonly"
             ELSE IF call.clear_first THEN "it_clear" ELSE "it_send_keys",
             << >>, page)
  /\ UNCHANGED <<call, polls, hist, prev>>

ItJsReadonly ==
  /\ pc = "it_js_readonly"
  /\ Command("it_js_disabled", <<"js_readonly_off">>, [page EXCEPT !.readonly = FALSE])
  /\ UNCHANGED <<call, polls, hist, prev>>

ItJsDisabled ==
  /\ pc = "it_js_disabled"
  /\ Command("it_js_value", <<"js_disabled_off">>, [page EXCEPT !.enabled = TRUE])
  /\ UNCHANGED <<call, polls, hist, prev>>

ItJsValue ==
  /\ pc = "it_js_value"
  /\ Command("it_evt_input", <<"js_set_value">>, [page EXCEPT !.value = call.text])
  /\ UNCHANGED <<call, polls, hist, prev>>

\* clear() on a field that is disabled or read-only by now is refused.
ItClear ==
  /\ pc = "it_clear"
  /\ IF page.present /\ ~Interactable
     THEN Throw("Other") /\ trace' = trace /\ page' = page
     ELSE Command("it_send_keys", <<"clear">>, [page EXCEPT !.value = << >>])
  /\ UNCHANGED <<call, polls, hist, prev>>

\* send_keys on a field that is disabled or read-only by now is refused.
ItSendKeys ==
  /\ pc = "it_send_keys"
  /\ IF page.present /\ ~Interactable
     THEN Throw("Other") /\ trace' = trace /\ page' = page
     ELSE Command("it_evt_input", <<"send_keys">>,
                  [page EXCEPT !.value = TypeKeys(page.value, call.text)])
  /\ UNCHANGED <<call, polls, hist, prev>>

ItEvtInput ==
  /\ pc = "it_evt_input"
  /\ Command("it_evt_change", <<"evt_input">>, page)
  /\ UNCHANGED <<call, polls, hist, prev>>

ItEvtChange ==
  /\ pc = "it_evt_change"
  /\ Command("it_return_true", <<"evt_change">>, page)
  /\ UNCHANGED <<call, polls, hist, prev>>

ItReturnTrue ==
  /\ pc = "it_return_true"
  /\ Return("True")
  /\ UNCHANGED <<page, call, polls, trace, hist, prev>>

ItExceptTimeout ==
  /\ pc = "it_except_timeout"
  /\ Return("False")
  /\ UNCHANGED <<page, call, polls, trace, hist, prev>>

ItExceptOther ==
  /\ pc = "it_except_other"
  /\ Goto("it_fb_find")
  /\ Log("fallback")
  /\ UNCHANGED <<page, call, polls, hist, prev>>

ItFbFind ==
  /\ pc = "it_fb_find"
  /\ Find("it_fb_value")
  /\ UNCHANGED <<page, call, polls, hist, prev>>

ItFbValue ==
  /\ pc = "it_fb_value"
  /\ Command("it_fb_input", <<"js_set_value">>, [page EXCEPT !.value = call.text])
  /\ UNCHANGED <<call, polls, hist, prev>>

\* A variant of the fallback that fires no notification.
ItFbInputSilent ==
  /\ pc = "it_fb_input"
  /\ Goto("it_fb_return_true")
  /\ UNCHANGED <<page, call, polls, trace, hist, prev>>

ItFbInput ==
  /\ pc = "it_fb_input"
  /\ Command("it_fb_return_true", <<"evt_input">>, page)
  /\ UNCHANGED <<call, polls, hist, prev>>

ItFbReturnTrue ==
  /\ pc = "it_fb_return_true"
  /\ Return("True")
  /\ UNCHANGED <<page, call, polls, trace, hist, prev>>

ItFbExcept ==
  /\ pc = "it_fb_except"
  /\ Return("False")
  /\ UNCHANGED <<page, call, polls, trace, hist, prev>>

InputText ==
  \/ ItOverlayWait \/ ItTargetWait \/ ItScroll \/ ItCheck
  \/ ItJsReadonly \/ ItJsDisabled \/ ItJsValue \/ ItClear \/ ItSendKeys
  \/ ItEvtInput \/ ItEvtChange \/ ItReturnTrue
  \/ ItExceptTimeout \/ ItExceptOther
  \/ ItFbFind \/ ItFbValue \/ ItFbInput \/ ItFbReturnTrue \/ ItFbExcept


(***************************************************************************)
(* click_element                                                           *)
(***************************************************************************)
\* What a click the element receives does to the page: a checkbox that
\* reacts to clicks flips; nothing else in the modelled state changes.
ClickEffect(pg) ==
  IF pg.kind = "checkbox" /\ pg.toggles THEN [pg EXCEPT !.checked = ~pg.checked]
  ELSE pg

CeOverlayWait ==
  /\ pc = "ce_overlay_wait"
  /\ Poll(OverlayGone, "ce_target_wait", "overlay_timeout")
  /\ UNCHANGED <<page, call, hist, prev>>

CeTargetWait ==
  /\ pc = "ce_target_wait"
  /\ Poll(Clickable, "ce_scroll", "target_timeout")
  /\ UNCHANGED <<page, call, hist, prev>>

CeScroll ==
  /\ pc = "ce_scroll"
  /\ Command("ce_click", <<"scroll">>, page)
  /\ UNCHANGED <<call, polls, hist, prev>>

\* line 133: element.click(); rejected when another element covers the click point.
CeClick ==
  /\ pc = "ce_click"
  /\ IF page.present /\ page.obscured
     THEN Throw("Intercepted") /\ Log("click_try") /\ page' = page
     ELSE Command("ce_return_true", <<"click_try", "click">>, ClickEffect(page))
  /\ UNCHANGED <<call, polls, hist, prev>>

CeReturnTrue ==
  /\ pc = "ce_return_true"
  /\ Return("True")
  /\ UNCHANGED <<page, call, polls, trace, hist, prev>>

CeExceptIntercepted ==
  /\ pc = "ce_except_intercepted"
  /\ Goto("ce_fb_find")
  /\ Log("intercepted")
  /\ UNCHANGED <<page, call, polls, hist, prev>>

CeFbFind ==
  /\ pc = "ce_fb_find"
  /\ Find("ce_fb_click")
  /\ UNCHANGED <<page, call, polls, hist, prev>>

\* line 142: arguments[0].click() in the page, which bypasses hit-testing.
CeFbClick ==
  /\ pc = "ce_fb_click"
  /\ Command("ce_fb_return_true", <<"js_click">>, ClickEffect(page))
  /\ UNCHANGED <<call, polls, hist, prev>>

CeFbReturnTrue ==
  /\ pc = "ce_fb_return_true"
  /\ Return("True")
  /\ UNCHANGED <<page, call, polls, trace, hist, prev>>

CeFbExcept ==
  /\ pc = "ce_fb_except"
  /\ Return("False")
  /\ UNCHANGED <<page, call, polls, trace, hist, prev>>

CeExceptTimeout ==
  /\ pc = "ce_except_timeout"
  /\ Return("False")
  /\ UNCHANGED <<page, call, polls, trace, hist, prev>>

CeExceptOther ==
  /\ pc = "ce_except_other"
  /\ Return("False")
  /\ UNCHANGED <<page, call, polls, trace, hist, prev>>

ClickElement ==
  \/ CeOverlayWait \/ CeTargetWait \/ CeScroll \/ CeClick \/ CeReturnTrue
  \/ CeExceptIntercepted \/ CeFbFind \/ CeFbClick \/ CeFbReturnTrue \/ CeFbExcept
  \/ CeExceptTimeout \/ CeExceptOther

(***************************************************************************)
(* click_checkbox                                                          *)
(***************************************************************************)
\* A variant that clicks whatever the state read.
NeedsClickAlways(current, desired) == TRUE
\* line 181: if element.is_selected() != desired_state
NeedsClick(current, desired) == current # desired

\* A variant that trusts the click.
VerifiedBlindly(final, desired) == TRUE
\* line 193: if final_state == desired_state
Verified(final, desired) == final = desired

CbPresenceWait ==
  /\ pc = "cb_presence_wait"
  /\ Poll(Present, "cb_scroll", "target_timeout")
  /\ UNCHANGED <<page, call, hist, prev>>

CbScroll ==
  /\ pc = "cb_scroll"
  /\ Command("cb_check", <<"scroll">>, page)
  /\ UNCHANGED <<call, polls, hist, prev>>

CbCheck ==
  /\ pc = "cb_check"
  /\ IF NeedsClick(page.checked, call.desired_state)
     THEN Command("cb_click_call",
                  <<IF page.checked = call.desired_state THEN "read_same"
                    ELSE "read_differs">>, page)
     ELSE Command("cb_verify", <<"read_same">>, page)
  /\ UNCHANGED <<call, polls, hist, prev>>

\* line 184: click_element(driver, locator, timeout)
CbClickCall ==
  /\ pc = "cb_click_call"
  /\ pc' = "ce_overlay_wait"
  /\ caller' = "cb_click_call"
  /\ polls' = 0
  /\ Log("call_click_element")
  /\ UNCHANGED <<page, call, ret, result, hist, prev>>

\* A variant that goes on to the verification whatever click_element said.
CbAfterClickIgnoresResult ==
  /\ pc = "cb_after_click"
  /\ Goto("cb_verify")
  /\ UNCHANGED <<page, call, polls, trace, hist, prev>>

\* A variant that calls click_element again when it reported failure.
CbAfterClickRetries ==
  /\ pc = "cb_after_click"
  /\ Goto(IF ret = "True" THEN "cb_verify" ELSE "cb_click_call")
  /\ UNCHANGED <<page, call, polls, trace, hist, prev>>

\* lines 184-187: if not click_element(...): return False
CbAfterClick ==
  /\ pc = "cb_after_click"
  /\ Goto(IF ret = "True" THEN "cb_verify" ELSE "cb_click_failed")
  /\ UNCHANGED <<page, call, polls, trace, hist, prev>>

CbClickFailed ==
  /\ pc = "cb_click_failed"
  /\ Return("False")
  /\ UNCHANGED <<page, call, polls, trace, hist, prev>>

\* lines 192-193: driver.find_element(*locator).is_selected(), compared.
CbVerify ==
  /\ pc = "cb_verify"
  /\ IF page.present
     THEN /\ Goto(IF Verified(page.checked, call.desired_state)
                  THEN "cb_return_true" ELSE "cb_return_false")
          /\ Logs(<<"find", IF page.checked = call.desired_state
                            THEN "verify_match" ELSE "verify_mismatch">>)
     ELSE Throw("NoSuchElement") /\ trace' = trace
  /\ UNCHANGED <<page, call, polls, hist, prev>>

CbReturnTrue ==
  /\ pc = "cb_return_true"
  /\ Return("True")
  /\ UNCHANGED <<page, call, polls, trace, hist, prev>>

CbReturnFalse ==
  /\ pc = "cb_return_false"
  /\ Return("False")
  /\ UNCHANGED <<page, call, polls, trace, hist, prev>>

CbExceptTimeout ==
  /\ pc = "cb_except_timeout"
  /\ Return("False")
  /\ UNCHANGED <<page, call, polls, trace, hist, prev>>

CbExceptOther ==
  /\ pc = "cb_except_other"
  /\ Return("False")
  /\ UNCHANGED <<page, call, polls, trace, hist, prev>>

ClickCheckbox ==
  \/ CbPresenceWait \/ CbScroll \/ CbCheck \/ CbClickCall \/ CbAfterClick
  \/ CbClickFailed \/ CbVerify \/ CbReturnTrue \/ CbReturnFalse
  \/ CbExceptTimeout \/ CbExceptOther


(***************************************************************************)
(* select_dropdown_option                                                  *)
(***************************************************************************)
\* Indices (0-based) of the options whose visible text / value attribute is s.
ByText(s) == {i \in 0 .. (NumOptions - 1) : Options[i + 1].text = s}
ByValue(s) == {i \in 0 .. (NumOptions - 1) : Options[i + 1].value = s}
\* int(option_text): defined on decimal numerals only (ValueError otherwise).
IsNumeral(s) == s \in {"1", "9"}
IntOf(s) == IF s = "1" THEN 1 ELSE 9
ByIndex(s) == {i \in 0 .. (NumOptions - 1) : IsNumeral(s) /\ i = IntOf(s)}
Lowest(S) == CHOOSE i \in S : \A j \in S : i <= j

\* A variant that settles for the first option when nothing matches.
SelectFromLenient(matches) ==
  IF ~page.present THEN Throw("Stale") /\ trace' = trace /\ page' = page
  ELSE /\ Goto("sd_readback")
       /\ Log("select")
       /\ page' = [page EXCEPT !.selected = IF matches = {} THEN 0 ELSE Lowest(matches)]

\* Select.select_by_*: the first matching option becomes the selected one;
\* NoSuchElementException when no option matches.
SelectFrom(matches) ==
  IF ~page.present THEN Throw("Stale") /\ trace' = trace /\ page' = page
  ELSE IF matches = {} THEN Throw("NoSuchElement") /\ trace' = trace /\ page' = page
  ELSE /\ Goto("sd_readback")
       /\ Log("select")
       /\ page' = [page EXCEPT !.selected = Lowest(matches)]

SdPresenceWait ==
  /\ pc = "sd_presence_wait"
  /\ Poll(Present, "sd_scroll", "target_timeout")
  /\ UNCHANGED <<page, call, hist, prev>>

SdScroll ==
  /\ pc = "sd_scroll"
  /\ Command("sd_select_ctor", <<"scroll">>, page)
  /\ UNCHANGED <<call, polls, hist, prev>>

\* line 234: Select(dropdown_element) reads the element's tag name.
SdSelectCtor ==
  /\ pc = "sd_select_ctor"
  /\ Command("sd_dispatch", << >>, page)
  /\ UNCHANGED <<call, polls, hist, prev>>

\* lines 236-244: the mode decides the selection call; an unknown mode returns False.
SdDispatch ==
  /\ pc = "sd_dispatch"
  /\ Goto(CASE call.by = "visible_text" -> "sd_by_text"
            [] call.by = "value" -> "sd_by_value"
            [] call.by = "index" -> "sd_by_index"
            [] OTHER -> "sd_invalid_mode")
  /\ UNCHANGED <<page, call, polls, trace, hist, prev>>

\* A variant that treats an unknown mode as an option that was not found.
SdInvalidModeEnumerates ==
  /\ pc = "sd_invalid_mode"
  /\ Goto("sd_except_nosuch")
  /\ UNCHANGED <<page, call, polls, trace, hist, prev>>

SdInvalidMode ==
  /\ pc = "sd_invalid_mode"
  /\ Return("False")
  /\ UNCHANGED <<page, call, polls, trace, hist, prev>>

SdByText ==
  /\ pc = "sd_by_text"
  /\ SelectFrom(ByText(call.option_text))
  /\ UNCHANGED <<call, polls, hist, prev>>

SdByValue ==
  /\ pc = "sd_by_value"
  /\ SelectFrom(ByValue(call.option_text))
  /\ UNCHANGED <<call, polls, hist, prev>>

\* line 241: int(option_text) raises ValueError before the browser is asked.
SdByIndex ==
  /\ pc = "sd_by_index"
  /\ IF ~IsNumeral(call.option_text)
     THEN Throw("Other") /\ trace' = trace /\ page' = page
     ELSE SelectFrom(ByIndex(call.option_text))
  /\ UNCHANGED <<call, polls, hist, prev>>

\* line 247: select.first_selected_option.text.strip()
SdReadback ==
  /\ pc = "sd_readback"
  /\ Command("sd_return_true", <<"readback">>, page)
  /\ UNCHANGED <<call, polls, hist, prev>>

SdReturnTrue ==
  /\ pc = "sd_return_true"
  /\ Return("True")
  /\ UNCHANGED <<page, call, polls, trace, hist, prev>>

SdExceptNoSuch ==
  /\ pc = "sd_except_nosuch"
  /\ Goto("sd_enum")
  /\ Log("option_not_found")
  /\ UNCHANGED <<page, call, polls, hist, prev>>

\* line 255: [opt.text for opt in Select(driver.find_element(*locator)).options]
SdEnumerate ==
  /\ pc = "sd_enum"
  /\ IF page.present
     THEN Goto("sd_return_false") /\ Log("enum")
     ELSE Throw("NoSuchElement") /\ trace' = trace
  /\ UNCHANGED <<page, call, polls, hist, prev>>

\* lines 257-258: except: pass
SdEnumPass ==
  /\ pc = "sd_enum_pass"
  /\ Goto("sd_return_false")
  /\ UNCHANGED <<page, call, polls, trace, hist, prev>>

SdReturnFalse ==
  /\ pc = "sd_return_false"
  /\ Return("False")
  /\ UNCHANGED <<page, call, polls, trace, hist, prev>>

SdExceptTimeout ==
  /\ pc = "sd_except_timeout"
  /\ Return("False")
  /\ UNCHANGED <<page, call, polls, trace, hist, prev>>

SdExceptOther ==
  /\ pc = "sd_except_other"
  /\ Return("False")
  /\ UNCHANGED <<page, call, polls, trace, hist, prev>>

SelectDropdown ==
  \/ SdPresenceWait \/ SdScroll \/ SdSelectCtor \/ SdDispatch \/ SdInvalidMode
  \/ SdByText \/ SdByValue \/ SdByIndex \/ SdReadback \/ SdReturnTrue
  \/ SdExceptNoSuch \/ SdEnumerate \/ SdEnumPass \/ SdReturnFalse
  \/ SdExceptTimeout \/ SdExceptOther

(***************************************************************************)
(* Calls                                                                   *)
(***************************************************************************)
\* What the previous call leaves for a following click_checkbox call to be
\* compared with: kept only for a click_checkbox call during which nothing
\* but the call itself changed the checkbox.
\* The call met an obstacle that is not of its own making: the browser layer
\* raised of its own accord, the element was missing at some moment, or the
\* overlay outlasted the wait for it.
Rough == Faulted(trace) \/ hist.gone \/ Occurs("overlay_timeout", trace)

Summary ==
  IF call.op = "click_checkbox" /\ ~hist.ext
  THEN [valid |-> TRUE, desired |-> call.desired_state, result |-> result,
        clicks |-> Registered(trace), endChecked |-> page.checked,
        rough |-> Rough]
  ELSE NoPrev

Begin(args, first) ==
  /\ pc = "idle"
  /\ call' = args
  /\ pc' = first
  /\ polls' = 0
  /\ caller' = "none"
  /\ ret' = "none"
  /\ result' = "none"
  /\ trace' = << >>
  /\ hist' = [absent |-> ~page.present, gone |-> ~page.present, ext |-> FALSE, before |-> page.value,
              selBefore |-> page.selected,
              enabledHist |-> IF page.enabled THEN "always" ELSE "never",
              wasReadonly |-> page.readonly]
  /\ prev' = Summary
  /\ page' = page

CallInputText ==
  /\ page.kind = "field"
  /\ \E t \in Texts, c \in BOOLEAN :
       /\ (~c => Len(page.value) + Len(t) <= MaxValueLen)
       /\ Begin([NoArgs EXCEPT !.op = "input_text", !.text = t, !.clear_first = c],
                "it_overlay_wait")

CallClickElement ==
  /\ page.kind = "button"
  /\ Begin([NoArgs EXCEPT !.op = "click_element"], "ce_overlay_wait")

CallClickCheckbox ==
  /\ page.kind = "checkbox"
  /\ \E d \in BOOLEAN :
       Begin([NoArgs EXCEPT !.op = "click_checkbox", !.desired_state = d],
             "cb_presence_wait")

CallSelectDropdown ==
  /\ page.kind = "select"
  /\ \E b \in Modes, o \in OptionTexts :
       Begin([NoArgs EXCEPT !.op = "select_dropdown_option", !.by = b,
                            !.option_text = o], "sd_presence_wait")

Call == CallInputText \/ CallClickElement \/ CallClickCheckbox \/ CallSelectDropdown

(***************************************************************************)
(* The browser layer failing, and the page changing under the call         *)
(***************************************************************************)
\* Positions at which the call is talking to the browser.
FaultPoints ==
  ItTry \cup ItFallback \cup CeTry \cup CeFallback \cup SdEnum
  \cup (CbTry \ {"cb_click_call", "cb_after_click"})
  \cup (SdTry \ {"sd_dispatch"})

\* The command at the current position fails with an exception of any class
\* (stale handle, lost session, script error, ...) instead of taking effect.
Fault ==
  /\ pc \in FaultPoints
  /\ \E e \in Excs : Throw(e) /\ Log(FaultEvent(pc, e))
  /\ polls' = 0
  /\ UNCHANGED <<page, call, hist, prev>>

OverlayChange ==
  /\ page' = [page EXCEPT !.overlay = ~page.overlay]
  /\ UNCHANGED <<call, pc, polls, caller, ret, result, trace, hist, prev>>

ElementAppears ==
  /\ ~page.present
  /\ page' = [page EXCEPT !.present = TRUE]
  /\ hist' = IF pc = "idle" THEN hist ELSE [hist EXCEPT !.absent = FALSE]
  /\ UNCHANGED <<call, pc, polls, caller, ret, result, trace, prev>>

ElementVanishes ==
  /\ page.present
  /\ page' = [page EXCEPT !.present = FALSE]
  /\ hist' = IF pc = "idle" THEN hist ELSE [hist EXCEPT !.gone = TRUE]
  /\ UNCHANGED <<call, pc, polls, caller, ret, result, trace, prev>>

\* A script of the page enables or disables the field while a call runs.
EnabledChange ==
  /\ pc # "idle"
  /\ page.kind = "field"
  /\ page' = [page EXCEPT !.enabled = ~page.enabled]
  /\ hist' = [hist EXCEPT !.enabledHist = "mixed"]
  /\ UNCHANGED <<call, pc, polls, caller, ret, result, trace, prev>>

\* Something other than the call flips the checkbox while a call runs.
ExternalFlip ==
  /\ pc # "idle"
  /\ page.kind = "checkbox"
  /\ page' = [page EXCEPT !.checked = ~page.checked]
  /\ hist' = [hist EXCEPT !.ext = TRUE]
  /\ UNCHANGED <<call, pc, polls, caller, ret, result, trace, prev>>

Environment ==
  OverlayChange \/ ElementAppears \/ ElementVanishes \/ EnabledChange \/ ExternalFlip

(***************************************************************************)
(* Specification                                                           *)
(***************************************************************************)
Init ==
  /\ page \in Pages
  /\ call = NoArgs
  /\ pc = "idle"
  /\ polls = 0
  /\ caller = "none"
  /\ ret = "none"
  /\ result = "none"
  /\ trace = << >>
  /\ hist = NoHist
  /\ prev = NoPrev

Program == InputText \/ ClickElement \/ ClickCheckbox \/ SelectDropdown

Next == Call \/ Program \/ Fault \/ Environment

Spec == Init /\ [][Next]_vars

\* The helpers are synchronous code on one thread: a call in progress keeps
\* executing its next statement.
FairSpec == Spec /\ WF_vars(Program)


(***************************************************************************)
(* Properties                                                              *)
(***************************************************************************)
Finished == pc = "idle" /\ call.op # "none"
Last(tr) == IF tr = << >> THEN "none" ELSE tr[Len(tr)]

\* C1: whatever the browser layer raises at any step of any of the four
\* operations, the fallbacks and the option enumeration included, the call
\* ends by returning a boolean; no exception reaches the caller.
C1_AlwaysReturnsBoolean ==
  /\ result # "raised"
  /\ (Finished => result \in {"True", "False"})

\* A call during which the option enumeration itself failed has returned.
C1_Witness ==
  /\ Finished
  /\ call.op = "select_dropdown_option"
  /\ Len(trace) >= 2
  /\ trace[Len(trace) - 1] = "option_not_found"
  /\ Last(trace) = "fault"
  /\ result = "False"

\* C2: a call whose locator matches no element for the whole call ends, and
\* ends with False, whatever the overlay does and whichever handler runs.
C2_AbsentElementFails ==
  /\ [](Finished /\ hist.absent => result = "False")
  /\ ((pc # "idle") ~> (pc = "idle"))

\* Such a call has ended after a last-resort fallback that found nothing.
C2_Witness ==
  /\ Finished
  /\ hist.absent
  /\ call.op = "input_text"
  /\ Occurs("fallback", trace)
  /\ result = "False"


\* Two click_checkbox calls in a row with the same desired state, on a page
\* whose checkbox nothing but the two calls changed; the second has returned.
TwoToggles ==
  /\ Finished
  /\ call.op = "click_checkbox"
  /\ prev.valid
  /\ prev.desired = call.desired_state
  /\ ~hist.ext

\* C3 as stated: two such calls deliver at most one click in total, and the
\* checkbox is in the desired state at the end of each of them.  Stated for
\* the calls during which the browser layer raised nothing of its own accord,
\* the checkbox was in the page throughout and the overlay went away in time.
C3_AsStated ==
  (TwoToggles /\ ~prev.rough /\ ~Rough) =>
    /\ prev.clicks + Registered(trace) <= 1
    /\ prev.endChecked = call.desired_state
    /\ page.checked = call.desired_state

\* C3 (amended): when the first of two such calls returned True, the two
\* calls deliver at most one click in total, the second attempting none, and
\* the checkbox is in the desired state at the end of each of them.
C3_IdempotentAfterSuccess ==
  TwoToggles /\ prev.result = "True" =>
    /\ prev.clicks + Registered(trace) <= 1
    /\ Attempts(trace) = 0
    /\ prev.endChecked = call.desired_state
    /\ page.checked = call.desired_state

\* The first call clicked once and succeeded; the second found nothing to do.
C3_Witness ==
  /\ TwoToggles
  /\ prev.result = "True"
  /\ prev.clicks = 1
  /\ result = "True"
  /\ Occurs("read_same", trace)

\* C4: once click_checkbox has read a checked state equal to the desired
\* one, the call makes no click attempt: click_element is not invoked and
\* neither a standard nor a script click is issued.
C4_NoClickWhenAlreadyThere ==
  call.op = "click_checkbox" /\ Occurs("read_same", trace) =>
    /\ ~Occurs("call_click_element", trace)
    /\ Attempts(trace) = 0
    /\ caller = "none"
    /\ pc \notin CeTry \cup CeFallback

\* A call that read the desired state has returned True without clicking.
C4_Witness ==
  /\ Finished
  /\ call.op = "click_checkbox"
  /\ Occurs("read_same", trace)
  /\ page.checked = call.desired_state
  /\ result = "True"

\* C5: click_checkbox returns True only when the state re-read from a
\* freshly located element, after the click or the no-op, equals the
\* desired state; a click that succeeded without bringing the checkbox to
\* the desired state gives False.
C5_SuccessOnlyIfVerified ==
  Finished /\ call.op = "click_checkbox" =>
    /\ (result = "True" =>
          /\ Last(trace) = "verify_match"
          /\ trace[Len(trace) - 1] = "find"
          /\ (~hist.ext => page.checked = call.desired_state))
    /\ (Occurs("verify_mismatch", trace) => result = "False")

\* click_element reported success, the checkbox did not reach the desired
\* state, and the call returned False.
C5_Witness ==
  /\ Finished
  /\ call.op = "click_checkbox"
  /\ ret = "True"
  /\ Registered(trace) = 1
  /\ Last(trace) = "verify_mismatch"
  /\ page.checked # call.desired_state
  /\ result = "False"


\* C6 as stated: a click_element call on a target that is present and
\* clickable throughout, with another element over its click point, returns
\* True with one click received: the standard click is tried first, and only
\* after it is rejected as intercepted is the element located again and the
\* script click issued.
C6_AsStated ==
  (/\ Finished
   /\ call.op = "click_element"
   /\ ~Faulted(trace) /\ ~hist.gone
   /\ page.displayed /\ page.enabled /\ page.obscured) =>
    /\ result = "True"
    /\ trace = <<"scroll", "click_try", "intercepted", "find", "js_click">>

\* What holds of the same calls once the overlay wait has passed.
C6_OnceOverlayGone ==
  (/\ Finished
   /\ call.op = "click_element"
   /\ ~Rough
   /\ page.displayed /\ page.enabled /\ page.obscured) =>
    /\ result = "True"
    /\ trace = <<"scroll", "click_try", "intercepted", "find", "js_click">>

\* C7: select_dropdown_option with by = "value" and a value no option
\* carries returns False, and the selected option is the one selected before
\* the call, at every moment of the call.
C7_MissingValueLeavesSelection ==
  (/\ call.op = "select_dropdown_option"
   /\ call.by = "value"
   /\ ByValue(call.option_text) = {}) =>
    /\ page.selected = hist.selBefore
    /\ ~Occurs("select", trace)
    /\ (Finished => result = "False")

\* Such a call, on a control whose second option was selected, has listed the
\* options and returned False.
C7_Witness ==
  /\ Finished
  /\ call.op = "select_dropdown_option"
  /\ call.by = "value"
  /\ ByValue(call.option_text) = {}
  /\ hist.selBefore = 1
  /\ trace = <<"scroll", "option_not_found", "enum">>
  /\ result = "False"

\* The field was enabled and writable from the start of the call to its end.
WritableField ==
  /\ call.op = "input_text"
  /\ hist.enabledHist = "always"
  /\ ~hist.wasReadonly

\* C8 as stated: an input_text call on such a field that returns True leaves
\* the value equal to the given string and has fired "input" and "change",
\* whatever the field held and whatever clear_first is.  Stated for the calls
\* that met no obstacle.
C8_AsStated ==
  (Finished /\ WritableField /\ ~Rough /\ result = "True") =>
    /\ page.value = call.text
    /\ Occurs("evt_input", trace)
    /\ Occurs("evt_change", trace)

\* C8 (amended): an input_text call on such a field that returns True leaves
\* the value equal to the given string when clear_first is true or the
\* last-resort fallback ran, and equal to the former content followed by the
\* given string otherwise; it has fired "input", and also "change" unless it
\* succeeded through the last-resort fallback.
C8_ValueAndNotifications ==
  (Finished /\ WritableField /\ result = "True") =>
    /\ page.value = IF call.clear_first \/ Occurs("fallback", trace)
                    THEN call.text
                    ELSE hist.before \o call.text
    /\ Occurs("evt_input", trace)
    /\ (~Occurs("fallback", trace) => Occurs("evt_change", trace))
    /\ (Occurs("fallback", trace) => ~Occurs("evt_change", trace))

\* A call without clear_first on a field holding "x" has typed after it.
C8_Witness ==
  /\ Finished
  /\ WritableField
  /\ ~call.clear_first
  /\ hist.before = <<"x">>
  /\ page.value = <<"x">> \o call.text
  /\ trace = <<"scroll", "send_keys", "evt_input", "evt_change">>
  /\ result = "True"

\* C9 as stated: input_text on a field that is present and visible but
\* disabled or read-only returns True with the field holding the given value
\* and both flags cleared.  Stated for the calls that met no obstacle.
C9_AsStated ==
  (/\ Finished
   /\ call.op = "input_text"
   /\ ~Rough
   /\ page.displayed
   /\ (hist.enabledHist = "never" \/ hist.wasReadonly)) =>
    /\ result = "True"
    /\ page.value = call.text
    /\ page.enabled /\ ~page.readonly

\* What holds of the read-only half: a read-only field that is enabled.
C9_ReadonlyHalf ==
  (/\ Finished
   /\ call.op = "input_text"
   /\ ~Rough
   /\ page.displayed
   /\ hist.enabledHist = "always" /\ hist.wasReadonly) =>
    /\ result = "True"
    /\ page.value = call.text
    /\ page.enabled /\ ~page.readonly
    /\ trace = <<"scroll", "js_readonly_off", "js_disabled_off", "js_set_value",
                 "evt_input", "evt_change">>

\* C10 as stated: an input_text call whose overlay wait ran out goes on to
\* the wait for the target, and on a field that is clickable and writable all
\* along it sets the value and returns True.
C10_AsStated ==
  (/\ Finished
   /\ WritableField
   /\ page.displayed /\ ~hist.gone /\ ~Faulted(trace)
   /\ Occurs("overlay_timeout", trace)) =>
    /\ result = "True"
    /\ Occurs("scroll", trace)


\* The call is click_element, or click_checkbox, which runs click_element.
Clicking == call.op \in {"click_element", "click_checkbox"}
\* A step of the call failed with the click-intercepted error: a standard
\* click was rejected, or the browser layer raised that error inside the try.
InterceptionRaised(tr) ==
  \/ Occurs("fault_intercepted", tr)
  \/ \E i \in 1 .. Len(tr) : tr[i] = "click_try" /\ (i = Len(tr) \/ tr[i + 1] # "click")
\* A wait ran out, or a failure of another class was raised.
OtherFailure(tr) ==
  \E i \in 1 .. Len(tr) :
    tr[i] \in {"overlay_timeout", "target_timeout", "fault_timeout", "fault"}

\* C11: in click_element the script click, and the fallback that leads to
\* it, come only after a step of the call failed with the click-intercepted
\* error; the handlers of a timeout and of any other error are entered with
\* no script click issued, and a call in which a wait ran out or another
\* error was raised returns False.
C11_ForcedClickOnlyAfterInterception ==
  Clicking =>
    /\ (Occurs("js_click", trace) \/ Occurs("intercepted", trace)
          \/ pc \in CeFallback \cup {"ce_except_intercepted", "ce_fb_except"}
        => InterceptionRaised(trace))
    /\ (Occurs("js_click", trace) =>
          /\ 0 < FirstPos("intercepted", trace)
          /\ FirstPos("intercepted", trace) < FirstPos("js_click", trace))
    /\ (pc \in {"ce_except_timeout", "ce_except_other"} =>
          ~Occurs("js_click", trace) /\ ~Occurs("intercepted", trace))
    /\ (Finished /\ call.op = "click_element" /\ OtherFailure(trace) =>
          result = "False" /\ ~Occurs("js_click", trace))

\* A click_element call whose standard click was rejected by an obscuring
\* element went on to the script click and returned True.
C11_Witness ==
  /\ Finished
  /\ call.op = "click_element"
  /\ trace = <<"scroll", "click_try", "intercepted", "find", "js_click">>
  /\ result = "True"


\* C12, as stated: once the selection step of select_dropdown_option has
\* completed, the call returns True whatever the read-back of the selected
\* option does.  The read of line 247 is inside the try: when it raises, an
\* except clause returns False.  (Shown on calls in which the driver raised
\* nothing of its own accord: the dropdown leaves the page after the
\* selection.)
C12_AsStated ==
  (/\ Finished
   /\ call.op = "select_dropdown_option"
   /\ Occurs("select", trace)
   /\ ~Faulted(trace))
  => result = "True"

\* C12, what the code does: after a completed selection the call returns
\* True exactly when the read-back was carried out without raising.
C12_SuccessIffReadbackWorked ==
  (/\ Finished
   /\ call.op = "select_dropdown_option"
   /\ Occurs("select", trace))
  => (result = "True" <=> Occurs("readback", trace))


\* A bounded wait of the call ran out.
WaitTimedOut(tr) == Occurs("overlay_timeout", tr) \/ Occurs("target_timeout", tr)
\* Position of the first wait of the call that ran out (0: none did).
TimeoutPos(tr) ==
  IF Occurs("overlay_timeout", tr) THEN FirstPos("overlay_timeout", tr)
  ELSE FirstPos("target_timeout", tr)

\* C13, as stated: a call in which a bounded wait ran out makes a recovery
\* attempt, that is some further command on the page after the timeout,
\* before it returns False.  In all four operations except TimeoutException
\* logs and returns False.  (Shown on calls in which the driver raised
\* nothing of its own accord, the element stayed on the page and the wait
\* that ran out is the one for the target element.)
C13_AsStated ==
  (/\ Finished
   /\ WaitTimedOut(trace)
   /\ result = "False"
   /\ ~Rough)
  => TimeoutPos(trace) < Len(trace)

\* C13, what the code does for timeouts: the timeout of a wait is the last
\* thing that happens on the page in the call, and the call returns False.
C13_TimeoutIsFinal ==
  WaitTimedOut(trace) =>
    /\ TimeoutPos(trace) = Len(trace)
    /\ Finished => result = "False"

\* C13, what the code does for interceptions: in click_element a rejected
\* standard click is followed by at most one script click, and the call
\* returns False only when re-locating the element or the script click raised.
C13_InterceptionRecoveredOnce ==
  (Clicking /\ Occurs("intercepted", trace)) =>
    /\ Count("intercepted", trace) = 1
    /\ Count("js_click", trace) <= 1
    /\ (Finished /\ call.op = "click_element" /\ result = "False"
          => ~Occurs("js_click", trace))


\* What follows position k of the trace.
After(k, tr) == SubSeq(tr, k + 1, Len(tr))
\* The commands of the last-resort fallback of input_text, in order.
FallbackCommands == <<"find", "js_set_value", "evt_input">>
\* tr is a run of the fallback: its commands in order, as far as they got,
\* ended by a failure of the browser layer or not.
FallbackRun(tr) ==
  \E n \in 0 .. Len(FallbackCommands) :
    \/ tr = SubSeq(FallbackCommands, 1, n)
    \/ n < Len(FallbackCommands) /\ tr = Append(SubSeq(FallbackCommands, 1, n), "fault")
\* The handlers of an unexpected error in the three other operations.
PlainHandlers == {"ce_except_other", "cb_except_other", "sd_except_other"}

\* C14, at every state.  input_text: the fallback is started at most once;
\* an unexpected error raised in the main path is followed at once by the
\* start of the fallback; the fallback re-locates the element, sets the
\* value by script and fires "input", the call returning True exactly when
\* all three were carried out; no timeout leads to the fallback.  The other
\* operations: no fallback, nothing is done on the page after an unexpected
\* error, and the call returns False.
C14_State ==
  IF call.op = "input_text"
  THEN /\ Count("fallback", trace) <= 1
       /\ \A i \in 1 .. Len(trace) :
            (trace[i] = "fault" /\ ~Occurs("fallback", SubSeq(trace, 1, i))) =>
              IF i = Len(trace) THEN pc = "it_except_other"
              ELSE trace[i + 1] = "fallback"
       /\ Occurs("fallback", trace) =>
            /\ FallbackRun(After(FirstPos("fallback", trace), trace))
            /\ ~WaitTimedOut(trace) /\ ~Occurs("fault_timeout", trace)
            /\ Finished =>
                 (result = "True"
                    <=> After(FirstPos("fallback", trace), trace) = FallbackCommands)
            /\ result = "True" => page.value = call.text
  ELSE /\ ~Occurs("fallback", trace)
       /\ Occurs("fault", trace) =>
            /\ trace[Len(trace)] = "fault"
            /\ Count("fault", trace) = 1
            /\ Finished => result = "False"

\* C14, at every step that leaves a handler of an unexpected error (however
\* the error was raised): in input_text it starts the fallback; in the other
\* operations it returns False and does nothing on the page.
C14_Step ==
  /\ (pc = "it_except_other" /\ pc' # pc) =>
       /\ pc' = "it_fb_find"
       /\ trace' = Append(trace, "fallback")
       /\ page' = page
  /\ (pc \in PlainHandlers /\ pc' # pc) =>
       /\ trace' = trace
       /\ page' = page
       /\ \/ pc' = "idle" /\ result' = "False"
          \/ pc' = "cb_after_click" /\ ret' = "False"

\* C14: an unexpected error in the main path of input_text triggers exactly
\* one last-resort fallback (re-locate, force-set the value, fire "input"),
\* with True if it works and False if it raises; in click_element,
\* click_checkbox and select_dropdown_option an unexpected error triggers no
\* fallback action and the call returns False.
C14_FallbackOnlyInInputText == []C14_State /\ [][C14_Step]_vars

\* An input_text call whose scroll script raised an unexpected error went
\* through the fallback and returned True.
C14_Witness ==
  /\ Finished
  /\ call.op = "input_text"
  /\ trace = <<"fault", "fallback", "find", "js_set_value", "evt_input">>
  /\ page.value = call.text
  /\ result = "True"


\* The selection modes select_dropdown_option knows.
KnownModes == {"visible_text", "value", "index"}

\* C15: a select_dropdown_option call with a mode other than visible_text,
\* value or index invokes no selection and leaves the selected option as it
\* was; it returns False; and unless the browser layer itself raised
\* NoSuchElementException before the mode was looked at, it neither reports
\* a missing option nor enumerates the options.  Once the mode has been
\* found unknown, nothing more is done on the page.
C15_UnknownModeFails ==
  (call.op = "select_dropdown_option" /\ call.by \notin KnownModes) =>
    /\ ~Occurs("select", trace) /\ ~Occurs("readback", trace)
    /\ page.selected = hist.selBefore
    /\ pc \notin {"sd_by_text", "sd_by_value", "sd_by_index", "sd_readback", "sd_return_true"}
    /\ ~Occurs("fault_nosuch", trace) =>
         /\ ~Occurs("enum", trace) /\ ~Occurs("option_not_found", trace)
         /\ pc \notin SdEnum \cup {"sd_except_nosuch"}
    /\ pc = "sd_invalid_mode" => trace = <<"scroll">>
    /\ Finished => result = "False"

\* A call with the mode "label" on a dropdown that is on the page got as far
\* as the dispatch and returned False after the scroll alone.
C15_Witness ==
  /\ Finished
  /\ call.op = "select_dropdown_option"
  /\ call.by = "label"
  /\ page.present /\ ~hist.gone
  /\ trace = <<"scroll">>
  /\ result = "False"


\* click_element, called by click_checkbox, has reported failure.
ClickReportedFailure == call.op = "click_checkbox" /\ ret = "False"

\* C16, at every state: once click_element has reported failure to
\* click_checkbox, the toggle is at the return of False or has returned
\* False; it has entered click_element once, and has not re-read the
\* checkbox for verification.
C16_State ==
  ClickReportedFailure =>
    /\ pc \in {"cb_after_click", "cb_click_failed", "idle"}
    /\ Count("call_click_element", trace) = 1
    /\ ~Occurs("verify_match", trace) /\ ~Occurs("verify_mismatch", trace)
    /\ Finished => result = "False"

\* C16, at every step of the call after that report: nothing more is done
\* on the page (no re-read, no click of either kind).
C16_Step == (ClickReportedFailure /\ pc # "idle") => trace' = trace

\* C16: in click_checkbox, when click_element reports failure the toggle
\* returns False immediately, with no final re-read and no further click.
C16_ClickFailureIsFinal == []C16_State /\ [][C16_Step]_vars

\* A toggle whose click_element call ran out of time waiting for the
\* checkbox to become clickable has returned False.
C16_Witness ==
  /\ Finished
  /\ ClickReportedFailure
  /\ trace = <<"scroll", "read_differs", "call_click_element", "target_timeout">>
  /\ result = "False"


\* C17: a click_element call tries at most one standard click and issues at
\* most one script click, the script click only after the standard path has
\* failed with an interception and never after a standard click that went
\* through; click_checkbox enters click_element at most once, so that a
\* toggle dispatches at most two clicks; the other operations dispatch none.
C17_BoundedClicks ==
  /\ Count("click_try", trace) <= 1
  /\ Count("js_click", trace) <= 1
  /\ Count("intercepted", trace) <= 1
  /\ Attempts(trace) <= 2
  /\ Registered(trace) <= 1
  /\ Occurs("js_click", trace) =>
       /\ Occurs("intercepted", trace)
       /\ LastPos("intercepted", trace) < FirstPos("js_click", trace)
       /\ Occurs("click_try", trace) =>
            LastPos("click_try", trace) < FirstPos("intercepted", trace)
  /\ Count("call_click_element", trace)
       <= (IF call.op = "click_checkbox" THEN 1 ELSE 0)
  /\ ~Clicking => Attempts(trace) = 0

\* A toggle has dispatched two clicks, the standard one, which was rejected,
\* and then the script click, and has returned.
C17_Witness ==
  /\ Finished
  /\ call.op = "click_checkbox"
  /\ Attempts(trace) = 2
  /\ trace[Len(trace)] \in {"verify_match", "verify_mismatch"}
  /\ Count("click_try", trace) = 1 /\ Count("js_click", trace) = 1


\* The commands that write the value of the field.
ValueWrites == {"js_set_value", "clear", "send_keys"}
\* Position of the last write to the value in tr (0: none).
LastWrite(tr) ==
  LET S == {i \in 1 .. Len(tr) : tr[i] \in ValueWrites}
  IN IF S = {} THEN 0 ELSE CHOOSE i \in S : \A j \in S : j <= i

\* C18: whenever input_text returns True, on whichever path, the value was
\* written and an "input" notification was dispatched after the last write;
\* a "change" notification was dispatched too, after that "input", exactly
\* when the call did not go through the last-resort fallback.
C18_InputEventAfterLastWrite ==
  (Finished /\ call.op = "input_text" /\ result = "True") =>
    /\ 0 < LastWrite(trace)
    /\ LastWrite(trace) < LastPos("evt_input", trace)
    /\ Occurs("evt_change", trace) <=> ~Occurs("fallback", trace)
    /\ Occurs("evt_change", trace) =>
         LastPos("evt_input", trace) < LastPos("evt_change", trace)

\* A call that typed the text, then met an unexpected error at the "change"
\* notification and wrote the value again in the fallback, returned True.
C18_Witness ==
  /\ Finished
  /\ call.op = "input_text"
  /\ result = "True"
  /\ Occurs("send_keys", trace)
  /\ Occurs("fallback", trace)
  /\ Count("evt_input", trace) = 2


\* The wait of the operation itself for its target element ran out: the
\* wait of lines 52-54, 124-126 (click_element called directly), 172-174 or
\* 225-227, as opposed to the wait of a click_element that click_checkbox
\* called after its own wait had passed.
OwnTargetWaitTimedOut ==
  Occurs("target_timeout", trace) /\ ~Occurs("call_click_element", trace)

\* C19: when the wait of an operation for its target element ran out, that
\* timeout is all that happened in the call: no script was run, no value
\* written, no notification fired, no click dispatched, no option selected;
\* the field value and the dropdown selection are those at the start of the
\* call, and the call returns False.
C19_TimeoutLeavesPageAlone ==
  OwnTargetWaitTimedOut =>
    /\ trace = <<"target_timeout">>
    /\ Attempts(trace) = 0 /\ Registered(trace) = 0
    /\ page.value = hist.before
    /\ page.selected = hist.selBefore
    /\ Finished => result = "False"

\* An input_text call on a field that is on the page, holds some text and
\* stays hidden has returned False after the timeout of its wait.
C19_Witness ==
  /\ Finished
  /\ call.op = "input_text"
  /\ OwnTargetWaitTimedOut
  /\ page.present /\ ~page.displayed /\ ~hist.gone
  /\ Len(page.value) > 0
  /\ result = "False"

\* In click_checkbox the wait of the click_element it calls can run out
\* after the toggle has scrolled to the checkbox and read its state; the
\* scroll script is then the only thing the call did on the page.
C19_NestedWait ==
  (call.op = "click_checkbox" /\ Occurs("target_timeout", trace)
     /\ Occurs("call_click_element", trace)) =>
    /\ trace = <<"scroll", "read_differs", "call_click_element", "target_timeout">>
    /\ Finished => result = "False"


====
